---- MODULE Spec2Model ----
(***************************************************************************)
(* Model of the spelling-practice application: the GUI variant             *)
(* (src/main.py), the terminal variant (src/spelling_app_v2.0.py) and the  *)
(* file loader of the older terminal variant (src/spelling_app_v2.py).     *)
(*                                                                         *)
(* A Python string is a sequence of one-character strings, so that strip,  *)
(* lower, split, int and str are computed and not assumed.                 *)
(***************************************************************************)
EXTENDS Integers, Sequences, FiniteSets, TLC

(***************************************************************************)
(* Bounds of the model.                                                    *)
(***************************************************************************)
\* longest raw selection expression enumerated character by character
MaxLen == 4
\* most atoms of a structured selection expression
MaxAtoms == 2
\* largest integer written in a structured selection expression
MaxNum == 3
\* most scheduled next_word callbacks that are outstanding at one time
MaxPending == 2
\* most lines of a text file
MaxLines == 2
\* most rows of a CSV file, the header row counted
MaxRows == 2
\* most lines typed in one manual entry
MaxTyped == 3

(***************************************************************************)
(* Strings.                                                                *)
(***************************************************************************)
Digits == <<"0", "1", "2", "3", "4", "5", "6", "7", "8", "9">>

DigitChars == {Digits[i] : i \in 1..10}

\* str.isspace for the characters of the model
IsSpace(c) == c = " "

\* str.lower on one character, for the letters of the model
LowerChar(c) ==
    CASE c = "A" -> "a"
      [] c = "C" -> "c"
      [] c = "D" -> "d"
      [] c = "E" -> "e"
      [] c = "L" -> "l"
      [] c = "N" -> "n"
      [] c = "O" -> "o"
      [] c = "Y" -> "y"
      [] OTHER -> c

\* str.lower
Lower(s) == [i \in 1..Len(s) |-> LowerChar(s[i])]

RECURSIVE LStrip(_)
LStrip(s) ==
    IF s = <<>> THEN <<>>
    ELSE IF IsSpace(Head(s)) THEN LStrip(Tail(s)) ELSE s

RECURSIVE RStrip(_)
RStrip(s) ==
    IF s = <<>> THEN <<>>
    ELSE IF IsSpace(s[Len(s)]) THEN RStrip(SubSeq(s, 1, Len(s) - 1)) ELSE s

\* str.strip
Strip(s) == RStrip(LStrip(s))

\* c in s
Contains(s, c) == \E i \in 1..Len(s) : s[i] = c

\* str.split(c): the parts between the occurrences of c, empty parts kept
RECURSIVE Split(_, _)
Split(s, c) ==
    IF ~Contains(s, c) THEN <<s>>
    ELSE LET k == CHOOSE i \in 1..Len(s) :
                      s[i] = c /\ \A j \in 1..(i - 1) : s[j] # c
         IN  <<SubSeq(s, 1, k - 1)>> \o Split(SubSeq(s, k + 1, Len(s)), c)

DigitVal(c) == (CHOOSE i \in 1..10 : Digits[i] = c) - 1

\* int(s) succeeds: the strings of the model carry no sign and no underscore,
\* so a literal is a non-empty run of digits with optional surrounding blanks
IntOk(s) ==
    LET t == Strip(s)
    IN  t # <<>> /\ \A i \in 1..Len(t) : t[i] \in DigitChars

RECURSIVE DigitsVal(_)
DigitsVal(t) ==
    IF t = <<>> THEN 0
    ELSE 10 * DigitsVal(SubSeq(t, 1, Len(t) - 1)) + DigitVal(t[Len(t)])

\* int(s), where IntOk(s)
IntVal(s) == DigitsVal(Strip(s))

\* str(n) for n >= 0
RECURSIVE Str(_)
Str(n) ==
    IF n < 10 THEN <<Digits[n + 1]>>
    ELSE Str(n \div 10) \o <<Digits[(n % 10) + 1]>>

\* [x for x in seq if P(x)] is SelectSeq(seq, P) of Sequences

(***************************************************************************)
(* Selection parser.                                                       *)
(***************************************************************************)
ALL == <<"a", "l", "l">>

\* a range that leaves its end out: range(start, end)
RangeIdsOpen(part) ==
    LET f == Split(part, "-")
    IN  IF Len(f) = 2 /\ IntOk(f[1]) /\ IntOk(f[2])
        THEN {Str(i) : i \in IntVal(f[1])..(IntVal(f[2]) - 1)}
        ELSE {}

\* the ids a part containing '-' adds: start, end = map(int, part.split('-'));
\* a ValueError (not two fields, or a field that is no integer) adds nothing
RangeIds(part) ==
    LET f == Split(part, "-")
    IN  IF Len(f) = 2 /\ IntOk(f[1]) /\ IntOk(f[2])
        THEN {Str(i) : i \in IntVal(f[1])..IntVal(f[2])}
        ELSE {}

\* the ids a part without '-' adds in the GUI: str(int(part)) if part
SingleIdsGui(part) ==
    IF part # <<>> /\ IntOk(part) THEN {Str(IntVal(part))} ELSE {}

\* the ids a part without '-' adds in the terminal: str(int(part))
SingleIdsTerm(part) ==
    IF IntOk(part) THEN {Str(IntVal(part))} ELSE {}

\* a loop that a part adding no id ends: the parts after it are not read
SelectedIdsGuiStop(user_input) ==
    LET parts == Split(user_input, ",")
        Ids(k) == LET part == Strip(parts[k])
                  IN  IF Contains(part, "-") THEN RangeIds(part)
                      ELSE SingleIdsGui(part)
    IN  UNION {Ids(k) : k \in {i \in 1..Len(parts) :
                                  \A j \in 1..i : Ids(j) # {}}}

\* selected_ids of parse_selection after its loop over user_input.split(',')
SelectedIdsGui(user_input) ==
    LET parts == Split(user_input, ",")
    IN  UNION {LET part == Strip(parts[k])
               IN  IF Contains(part, "-") THEN RangeIds(part)
                   ELSE SingleIdsGui(part) : k \in 1..Len(parts)}

\* selected_ids of select_words_for_test after its loop
SelectedIdsTerm(user_input) ==
    LET parts == Split(user_input, ",")
    IN  UNION {LET part == Strip(parts[k])
               IN  IF Contains(part, "-") THEN RangeIds(part)
                   ELSE SingleIdsTerm(part) : k \in 1..Len(parts)}

\* the records of each part in turn, in the order of the expression
RECURSIVE RecordsByPart(_, _)
RecordsByPart(parts, all_words) ==
    IF parts = <<>> THEN <<>>
    ELSE LET part == Strip(Head(parts))
             ids == IF Contains(part, "-") THEN RangeIds(part)
                    ELSE SingleIdsGui(part)
             Sel(item) == item.id \in ids
         IN  SelectSeq(all_words, Sel) \o RecordsByPart(Tail(parts), all_words)

\* a parse_selection that answers in the order of the expression
parse_selection_by_part(user_input, all_words) ==
    IF user_input = <<>> \/ Lower(Strip(user_input)) = ALL
    THEN all_words
    ELSE RecordsByPart(Split(user_input, ","), all_words)

\* the first record of each id of ids, in the order of the list
RECURSIVE FirstOfId(_, _)
FirstOfId(all_words, ids) ==
    IF all_words = <<>> THEN <<>>
    ELSE IF Head(all_words).id \in ids
    THEN <<Head(all_words)>>
             \o FirstOfId(Tail(all_words), ids \ {Head(all_words).id})
    ELSE FirstOfId(Tail(all_words), ids)

\* a parse_selection that looks each id up once
parse_selection_by_id(user_input, all_words) ==
    IF user_input = <<>> \/ Lower(Strip(user_input)) = ALL
    THEN all_words
    ELSE FirstOfId(all_words, SelectedIdsGui(user_input))

\* parse_selection(user_input, all_words) of the GUI
parse_selection(user_input, all_words) ==
    IF user_input = <<>> \/ Lower(Strip(user_input)) = ALL
    THEN all_words
    ELSE LET ids == SelectedIdsGui(user_input)
             Sel(item) == item.id \in ids
         IN  SelectSeq(all_words, Sel)

\* select_words_for_test(all_words) of the terminal, raw being the line that
\* input() returns
select_words_for_test(raw, all_words) ==
    LET user_input == Lower(Strip(raw))
    IN  IF user_input = ALL
        THEN all_words
        ELSE LET ids == SelectedIdsTerm(user_input)
                 Sel(item) == item.id \in ids
             IN  SelectSeq(all_words, Sel)

(***************************************************************************)
(* Data of the model: words, word lists and the lines a user types.        *)
(***************************************************************************)
CAT == <<"c", "a", "t">>

DOG == <<"d", "o", "g">>

FISH == <<"f", "i", "s", "h">>

\* a word record {'id': id, 'word': word}
Rec(id, word) == [id |-> id, word |-> word]

\* the list of the specification's end-to-end scenario
List3 == <<Rec(<<"1">>, CAT), Rec(<<"2">>, DOG), Rec(<<"3">>, FISH)>>

\* a text file whose second line is blank
List2 == <<Rec(<<"1">>, CAT), Rec(<<"3">>, FISH)>>

\* what loading a source can return; the empty list is a failed load
LoadResults == {<<>>, List2, List3}

\* what load_list can install beside them: json.load returns the content of
\* the file as it is, here a record whose word is empty
JsonLoadResults == {<<Rec(<<"1">>, <<>>)>>}

\* the selection expressions typed in a session
SessionInputs ==
    {ALL, <<>>, <<"1", ",", "3">>, <<"2", "-", "3">>, <<"x">>}

\* the answers typed in a session, as the input field or input() holds them
TypedTexts ==
    {<<>>, <<"c", "o", "t">>, <<"C", "a", "t", " ">>, DOG, FISH}

\* the answers typed at the practice-again prompt
PromptAnswers == {<<"y">>, <<" ", "Y">>, <<"n">>, <<>>}

\* the outcomes of one call of speak: it returns, the subprocess fails with
\* CalledProcessError or FileNotFoundError, or something else is raised
SpeakOutcomes == {"ok", "process_error", "other_error"}

\* results_label, or the screen of the terminal, with no report on it
NoReport == [kind |-> "none", rows |-> <<>>]

\* "[i]no answer[/i]", the markup shown for an answer that is empty
NoAnswer == <<"[i]no answer[/i]">>

\* no source was handed to a loader
NoSource == [kind |-> "none"]

\* the text of a file that was not written
NoFile == <<>>

\* neither save_recent_file nor remove_recent_file has been called
NoCall == [op |-> "none"]

\* current_word_data before the first next_word: the attribute does not exist
NoData == [id |-> <<>>, word |-> <<>>]

(***************************************************************************)
(* State.                                                                  *)
(***************************************************************************)
VARIABLES
    variant,            \* "gui" (main.py), "term" (spelling_app_v2.0.py),
                        \* "legacy" (spelling_app_v2.py), or "select" and
                        \* "recent" for the parsers and the recent files alone
    pc,                 \* GUI: manager.current; terminal: the input() waited at
    full_word_list,     \* app.full_word_list; word_list of main()
    words_to_test,      \* app.words_to_test; words_to_test of start_spelling_test
    current_word_index, \* app.current_word_index; i of the for loop
    test_results,       \* app.test_results; test_results of start_spelling_test
    current_word_data,  \* SpellingTestScreen.current_word_data
    pending,            \* next_word callbacks scheduled and not yet run
    practice_disabled,  \* ids.practice_button.disabled
    info_label,         \* SelectWordsScreen.info_label
    announced,          \* the records announced so far in this round, in order
    speech,             \* how the last announcement ended
    typed_lines,        \* the answers of this round as they were typed
    results_label,      \* the report on display: ResultsScreen.results_label
                        \* while its screen is current; the table printed
    source,             \* the source handed to the loader last
    load_outcome,       \* what the last load or save reported
    saved_file,         \* the text of the .json file save_list wrote
    saved_list,         \* the list save_list was given when it wrote the file
    entry_lines,        \* the lines typed at "Enter word" so far
    entry_words,        \* words of create_word_list_manually, load_from_file
                        \* and load_list
    recent_files,       \* the text of recent_files.json, NoFile before it exists
    recent_call,        \* the last call of save_recent_file or
                        \* remove_recent_file: its path and whether it printed
                        \* that the list could not be saved
    sel_input,          \* the selection expression handed to the parser
    sel_atoms,          \* the atoms sel_input was written from, if any
    sel_words,          \* the word list handed to the parser
    sel_ids,            \* selected_ids after the parser's loop
    sel_out             \* the list the parser returned

sessionVars ==
    <<pc, full_word_list, words_to_test, current_word_index, test_results,
      current_word_data, pending, practice_disabled, info_label, announced,
      speech, typed_lines, results_label>>

selVars == <<sel_input, sel_atoms, sel_words, sel_ids, sel_out>>

diskVars ==
    <<source, load_outcome, saved_file, saved_list, entry_lines, entry_words>>

recentVars == <<recent_files, recent_call>>

loadVars == <<diskVars, recentVars>>

\* the state of a session, the screen and the loaded list left out
testVars ==
    <<words_to_test, current_word_index, test_results, current_word_data,
      pending, practice_disabled, info_label, announced, speech, typed_lines,
      results_label>>

vars == <<variant, sessionVars, selVars, loadVars>>

\* no load, save or manual entry has taken place
LoadIdle ==
    /\ source = NoSource
    /\ load_outcome = <<>>
    /\ saved_file = NoFile
    /\ saved_list = <<>>
    /\ entry_lines = <<>>
    /\ entry_words = <<>>
    /\ recent_files = NoFile
    /\ recent_call = NoCall

(***************************************************************************)
(* Scoring.                                                                *)
(***************************************************************************)
\* res['correct']['word'].lower() != res['typed'].lower()
IsMiss(res) == Lower(res.correct.word) # Lower(res.typed)

\* misspelled_words = [res for res in test_results if ...]
Misspelled(results) == SelectSeq(results, IsMiss)

\* [item['correct'] for item in misspelled_words]
CorrectOf(results) == [k \in 1..Len(results) |-> results[k].correct]

\* a retry set that keeps every word of the round, missed or not
RetrySetAll(results) == CorrectOf(results)

\* the working set of a retry round
RetrySet(results) == CorrectOf(Misspelled(results))

(***************************************************************************)
(* Speech port.                                                            *)
(***************************************************************************)
\* speak of the GUI: every Exception is caught and a "TTS Error" line is
\* printed; the word is shown nowhere
GuiSpeak(outcome) == IF outcome = "ok" THEN "spoken" ELSE "error_printed"

\* speak of the terminal: CalledProcessError and FileNotFoundError are caught
\* and "Spoken: <text>" is printed; any other exception leaves speak
TermSpeak(outcome) ==
    CASE outcome = "ok" -> "spoken"
      [] outcome = "process_error" -> "text_shown"
      [] OTHER -> "raised"

\* the two calls of speak for one word: the first that raises ends the pair
TermSpeakTwice(o1, o2) ==
    IF TermSpeak(o1) = "raised" \/ TermSpeak(o2) = "raised" THEN "raised"
    ELSE IF TermSpeak(o1) = "text_shown" \/ TermSpeak(o2) = "text_shown"
         THEN "text_shown"
         ELSE "spoken"

(***************************************************************************)
(* json.dump(words, f, indent=4) and json.load(f), for lists whose items   *)
(* are objects with string values, or strings.                             *)
(***************************************************************************)
\* the text of s, n times
RECURSIVE Repeat(_, _)
Repeat(s, n) == IF n = 0 THEN <<>> ELSE s \o Repeat(s, n - 1)

\* the newline and the indentation of nesting level n
Indent(n) == <<"\n">> \o Repeat(<<" ", " ", " ", " ">>, n)

\* an encoder that writes every character as it is
EscapeCharNone(c) == <<c>>

\* the encoder's escape of one character of a string
EscapeChar(c) ==
    CASE c = "\"" -> <<"\\", "\"">>
      [] c = "\\" -> <<"\\", "\\">>
      [] c = "\n" -> <<"\\", "n">>
      [] OTHER -> <<c>>

RECURSIVE EscapeAll(_)
EscapeAll(s) ==
    IF s = <<>> THEN <<>> ELSE EscapeChar(Head(s)) \o EscapeAll(Tail(s))

\* a string as the encoder writes it
DumpString(s) == <<"\"">> \o EscapeAll(s) \o <<"\"">>

\* the name of a key as text
KeyText(key) ==
    CASE key = "id" -> <<"i", "d">>
      [] key = "word" -> <<"w", "o", "r", "d">>
      [] OTHER -> <<"k">>

\* the key a text names
KeyOf(text) ==
    CASE text = <<"i", "d">> -> "id"
      [] text = <<"w", "o", "r", "d">> -> "word"
      [] OTHER -> "k"

\* the keys of a dict in the order they were inserted: id before word
KeyOrder(item) ==
    SelectSeq(<<"id", "word", "k">>, LAMBDA key : key \in DOMAIN item)

RECURSIVE DumpMembers(_, _, _)
DumpMembers(item, keys, level) ==
    IF keys = <<>> THEN <<>>
    ELSE Indent(level) \o DumpString(KeyText(Head(keys))) \o <<":", " ">>
             \o DumpString(item[Head(keys)])
             \o (IF Len(keys) > 1 THEN <<",">> ELSE <<>>)
             \o DumpMembers(item, Tail(keys), level)

\* one item of the list: a string, or a dict at nesting level 1
DumpItem(item) ==
    IF DOMAIN item = {"str"} THEN DumpString(item.str)
    ELSE <<"{">> \o DumpMembers(item, KeyOrder(item), 2) \o Indent(1) \o <<"}">>

RECURSIVE DumpItems(_)
DumpItems(items) ==
    IF items = <<>> THEN <<>>
    ELSE Indent(1) \o DumpItem(Head(items))
             \o (IF Len(items) > 1 THEN <<",">> ELSE <<>>)
             \o DumpItems(Tail(items))

\* json.dump(words, f, indent=4): the text written
Dumps(words) ==
    IF words = <<>> THEN <<"[", "]">>
    ELSE <<"[">> \o DumpItems(words) \o Indent(0) \o <<"]">>

\* the decoder could not go on
Failed == [ok |-> FALSE, val |-> <<>>, next |-> 0]

\* the position of the first character at or after i that is not white
RECURSIVE SkipWs(_, _)
SkipWs(s, i) ==
    IF i <= Len(s) /\ s[i] \in {" ", "\n"} THEN SkipWs(s, i + 1) ELSE i

\* the characters of a string from position i up to its closing quote
RECURSIVE ReadChars(_, _, _)
ReadChars(s, i, acc) ==
    IF i > Len(s) \/ s[i] = "\n" THEN Failed
    ELSE IF s[i] = "\"" THEN [ok |-> TRUE, val |-> acc, next |-> i + 1]
    ELSE IF s[i] = "\\"
    THEN IF i + 1 > Len(s) THEN Failed
         ELSE IF s[i + 1] \in {"\"", "\\"}
         THEN ReadChars(s, i + 2, Append(acc, s[i + 1]))
         ELSE IF s[i + 1] = "n" THEN ReadChars(s, i + 2, Append(acc, "\n"))
         ELSE Failed
    ELSE ReadChars(s, i + 1, Append(acc, s[i]))

\* a string that starts at position i
ReadString(s, i) ==
    IF i <= Len(s) /\ s[i] = "\"" THEN ReadChars(s, i + 1, <<>>) ELSE Failed

\* the members of an object from position i, pairs being those read so far
RECURSIVE ReadMembers(_, _, _)
ReadMembers(s, i, pairs) ==
    LET key == ReadString(s, SkipWs(s, i))
        colon == SkipWs(s, key.next)
        value == ReadString(s, SkipWs(s, colon + 1))
        after == SkipWs(s, value.next)
        read == Append(pairs, <<KeyOf(key.val), value.val>>)
    IN  IF ~key.ok \/ colon > Len(s) \/ s[colon] # ":" THEN Failed
        ELSE IF ~value.ok \/ after > Len(s) THEN Failed
        ELSE IF s[after] = "," THEN ReadMembers(s, after + 1, read)
        ELSE IF s[after] = "}"
        THEN [ok |-> TRUE,
              val |-> [key2 \in {read[k][1] : k \in 1..Len(read)} |->
                          LET last == CHOOSE k \in 1..Len(read) :
                                          /\ read[k][1] = key2
                                          /\ \A m \in (k + 1)..Len(read) :
                                               read[m][1] # key2
                          IN  read[last][2]],
              next |-> after + 1]
        ELSE Failed

\* one item of a list: a string or an object
ReadItem(s, i) ==
    IF i > Len(s) THEN Failed
    ELSE IF s[i] = "\""
    THEN LET str == ReadString(s, i)
         IN  IF str.ok THEN [ok |-> TRUE, val |-> [str |-> str.val],
                             next |-> str.next]
             ELSE Failed
    ELSE IF s[i] = "{" THEN ReadMembers(s, i + 1, <<>>)
    ELSE Failed

\* the items of a list from position i, items being those read so far
RECURSIVE ReadItems(_, _, _)
ReadItems(s, i, items) ==
    LET item == ReadItem(s, SkipWs(s, i))
        after == SkipWs(s, item.next)
    IN  IF ~item.ok \/ after > Len(s) THEN Failed
        ELSE IF s[after] = "," THEN ReadItems(s, after + 1, Append(items, item.val))
        ELSE IF s[after] = "]"
        THEN [ok |-> TRUE, val |-> Append(items, item.val), next |-> after + 1]
        ELSE Failed

\* json.load(f) of a text: the list read, or the failure JSONDecodeError
Loads(text) ==
    LET start == SkipWs(text, 1)
        list == IF start > Len(text) \/ text[start] # "[" THEN Failed
                ELSE IF SkipWs(text, start + 1) <= Len(text)
                        /\ text[SkipWs(text, start + 1)] = "]"
                THEN [ok |-> TRUE, val |-> <<>>,
                      next |-> SkipWs(text, start + 1) + 1]
                ELSE ReadItems(text, start + 1, <<>>)
    IN  IF list.ok /\ SkipWs(text, list.next) > Len(text)
        THEN [ok |-> TRUE, val |-> list.val]
        ELSE [ok |-> FALSE, val |-> <<>>]


(***************************************************************************)
(* The list of recent files of the GUI, kept in recent_files.json.         *)
(***************************************************************************)
\* recent_files[:5]
RecentLimit == 5

\* json.dump(recent_files, f): the strings behind one another
RECURSIVE DumpFlatItems(_)
DumpFlatItems(items) ==
    IF items = <<>> THEN <<>>
    ELSE DumpString(Head(items))
             \o (IF Len(items) > 1 THEN <<",", " ">> ELSE <<>>)
             \o DumpFlatItems(Tail(items))

DumpsFlat(items) == <<"[">> \o DumpFlatItems(items) \o <<"]">>

\* what load_recent_files returns for what json.load has read: the strings
\* of the list, or no list after JSONDecodeError
RecentOf(read) ==
    IF read.ok THEN [k \in 1..Len(read.val) |-> read.val[k].str] ELSE <<>>

\* load_recent_files(): no list when the file does not exist or is not JSON
load_recent_files(file) ==
    IF file = NoFile THEN <<>> ELSE RecentOf(Loads(file))

\* filepath in recent_files
InList(filepath, list) == \E k \in 1..Len(list) : list[k] = filepath

\* recent_files.remove(filepath): the first occurrence is taken out
RECURSIVE RemoveFirst(_, _)
RemoveFirst(list, filepath) ==
    IF list = <<>> THEN <<>>
    ELSE IF Head(list) = filepath THEN Tail(list)
    ELSE <<Head(list)>> \o RemoveFirst(Tail(list), filepath)

\* what open(RECENT_FILES_PATH, 'w') and json.dump do: the list is written;
\* open raises IOError and the file stays as it was; or the write raises it
\* after open has emptied the file, and what was written is not JSON
WriteOutcomes == {"ok", "open_fails", "write_fails"}

\* the text of the file after the with block
WriteRecent(list, file, outcome) ==
    CASE outcome = "ok" -> DumpsFlat(list)
      [] outcome = "open_fails" -> file
      [] OTHER -> <<"[">>

\* recent_files[:5]
Cut(list) ==
    SubSeq(list, 1, IF Len(list) < RecentLimit THEN Len(list) ELSE RecentLimit)

\* an update that does not look for the path in the list
SavedListAgain(filepath, list) == Cut(<<filepath>> \o list)

\* the list of save_recent_file when it is written: the path taken out if
\* it is in the list, inserted at the front, and the first five kept
SavedList(filepath, list) ==
    Cut(<<filepath>> \o (IF InList(filepath, list)
                         THEN RemoveFirst(list, filepath) ELSE list))

\* save_recent_file(filepath): the text of the file afterwards, loaded
\* being what load_recent_files has returned
save_recent_file(filepath, loaded, file, outcome) ==
    WriteRecent(SavedList(filepath, loaded), file, outcome)

\* remove_recent_file(filepath): the text of the file afterwards, loaded
\* being what load_recent_files has returned; the file is written only when
\* the path is in the list
remove_recent_file(filepath, loaded, file, outcome) ==
    IF InList(filepath, loaded)
    THEN WriteRecent(RemoveFirst(loaded, filepath), file, outcome)
    ELSE file

\* a call that printed that the list could not be saved
FailedCall == [op |-> "failed"]

\* the call as recent_call records it
SaveCall(filepath, outcome) ==
    IF outcome = "ok" THEN [op |-> "save", path |-> filepath] ELSE FailedCall

RemoveCall(filepath, loaded, outcome) ==
    IF InList(filepath, loaded) /\ outcome # "ok" THEN FailedCall
    ELSE [op |-> "remove", path |-> filepath]

\* the paths of the files, one more than the list keeps: one with a
\* backslash and a quote in its name
PathNames == <<"a", "b", "c", "d", "e", "f">>

RecentPath(k) ==
    IF k = 1 THEN <<"\\", "\"", "a">> ELSE <<PathNames[k]>>

Paths == {RecentPath(k) : k \in 1..(RecentLimit + 1)}

\* the path of a file the chooser of the load screens answers: the text
\* files are one file and the other files another
PathOf(filepath) ==
    IF filepath.ext = "txt" THEN RecentPath(1) ELSE RecentPath(2)

(***************************************************************************)
(* GUI variant (main.py).  The screen manager dispatches on_enter when a   *)
(* screen becomes current, so a change of screen and the new screen's      *)
(* on_enter are one step.  A handler bound to a widget of a screen runs    *)
(* only while that screen is current; a Clock callback runs whatever the   *)
(* screen.                                                                 *)
(***************************************************************************)
\* results_text of ResultsScreen.on_enter: one row for each misspelled word,
\* the answer typed, or the placeholder when it is empty, and the word
GuiReport(results) ==
    IF Misspelled(results) = <<>>
    THEN [kind |-> "congratulations", rows |-> <<>>]
    ELSE [kind |-> "practice",
          rows |-> [k \in 1..Len(Misspelled(results)) |->
                       LET item == Misspelled(results)[k]
                       IN  [typed |-> IF item.typed # <<>> THEN item.typed
                                      ELSE NoAnswer,
                            correct |-> item.correct.word]]]

\* a results screen that leaves the practice button enabled after a perfect
\* round
ResultsEnterEnabled(results) ==
    /\ practice_disabled' = FALSE
    /\ results_label' = GuiReport(results)
    /\ IF Misspelled(results) = <<>>
       THEN UNCHANGED words_to_test
       ELSE words_to_test' = RetrySet(results)

\* ResultsScreen.on_enter over the results of the round
ResultsEnter(results) ==
    /\ results_label' = GuiReport(results)
    /\ IF Misspelled(results) = <<>>
       THEN /\ practice_disabled' = TRUE
            /\ UNCHANGED words_to_test
       ELSE /\ practice_disabled' = FALSE
            /\ words_to_test' = RetrySet(results)

\* a next_word that does not leave the screen after the last word
NextWordNoClose(idx, results) ==
    IF idx < Len(words_to_test)
    THEN /\ current_word_data' = words_to_test[idx + 1]
         /\ announced' = Append(announced, idx + 1)
         /\ \E o \in SpeakOutcomes : speech' = GuiSpeak(o)
         /\ UNCHANGED <<pc, words_to_test, practice_disabled, results_label>>
    ELSE UNCHANGED <<current_word_data, announced, speech, pc, words_to_test,
                     practice_disabled, results_label>>

\* SpellingTestScreen.next_word with app.current_word_index = idx and
\* app.test_results = results
NextWord(idx, results) ==
    IF idx < Len(words_to_test)
    THEN /\ current_word_data' = words_to_test[idx + 1]
         /\ announced' = Append(announced, idx + 1)
         /\ \E o \in SpeakOutcomes : speech' = GuiSpeak(o)
         /\ UNCHANGED <<pc, words_to_test, practice_disabled, results_label>>
    ELSE /\ UNCHANGED <<current_word_data, announced, speech>>
         /\ IF pc = "results"
            THEN UNCHANGED <<pc, words_to_test, practice_disabled,
                             results_label>>
            ELSE /\ pc' = "results"
                 /\ ResultsEnter(results)

\* an on_enter that resets the index and keeps the results
TestEnterKeepsResults ==
    /\ pc' = "spelling_test"
    /\ current_word_index' = 0
    /\ UNCHANGED test_results
    /\ pending' = pending + 1
    /\ announced' = <<>>
    /\ speech' = "none"
    /\ typed_lines' = <<>>
    /\ results_label' = NoReport

\* SpellingTestScreen.on_enter
TestEnter ==
    /\ pc' = "spelling_test"
    /\ current_word_index' = 0
    /\ test_results' = <<>>
    /\ pending' = pending + 1
    /\ announced' = <<>>
    /\ speech' = "none"
    /\ typed_lines' = <<>>
    /\ results_label' = NoReport

\* MainMenuScreen.load_specific_file, loaded being what load_words_from_path
\* returns
GuiLoad ==
    /\ variant = "gui"
    /\ pc = "main_menu"
    /\ \E loaded \in LoadResults :
         /\ full_word_list' = loaded
         /\ pc' = IF loaded # <<>> THEN "select_words" ELSE pc
         /\ info_label' = IF loaded # <<>> THEN "loaded" ELSE info_label
         /\ IF loaded # <<>>
            THEN \E outcome \in WriteOutcomes :
                   /\ recent_files' =
                          save_recent_file(RecentPath(1),
                                           load_recent_files(recent_files),
                                           recent_files, outcome)
                   /\ recent_call' = SaveCall(RecentPath(1), outcome)
            ELSE UNCHANGED recentVars
    /\ UNCHANGED <<variant, words_to_test, current_word_index, test_results,
                   current_word_data, pending, practice_disabled, announced,
                   speech, typed_lines, results_label, selVars, diskVars>>

\* a start that takes any selection, an empty one too
GuiAcceptsAny(selected_words) == TRUE

\* if selected_words: of start_test_with_selection
GuiAccepts(selected_words) == selected_words # <<>>

\* SelectWordsScreen.start_test_with_selection
GuiStartTest ==
    /\ variant = "gui"
    /\ pc = "select_words"
    /\ pending < MaxPending
    /\ \E user_input \in SessionInputs :
         LET selected_words == parse_selection(user_input, full_word_list)
         IN  IF GuiAccepts(selected_words)
             THEN /\ words_to_test' = selected_words
                  /\ TestEnter
                  /\ UNCHANGED info_label
             ELSE /\ info_label' = "invalid"
                  /\ UNCHANGED <<pc, words_to_test, current_word_index,
                                 test_results, pending, announced, speech,
                                 typed_lines, results_label>>
    /\ UNCHANGED <<variant, full_word_list, current_word_data,
                   practice_disabled, selVars, loadVars>>

\* the callback scheduled by SpellingTestScreen.on_enter: next_word
GuiTimer ==
    /\ variant = "gui"
    /\ pc # "crashed"
    /\ pending > 0
    /\ pending' = pending - 1
    /\ NextWord(current_word_index, test_results)
    /\ UNCHANGED <<variant, full_word_list, current_word_index, test_results,
                   info_label, typed_lines, selVars, loadVars>>

\* SpellingTestScreen.submit_word, the input field holding text
GuiSubmit ==
    /\ variant = "gui"
    /\ pc = "spelling_test"
    /\ \E text \in TypedTexts :
         IF current_word_data = NoData
         THEN \* AttributeError: the handler ends before the append
              /\ pc' = "crashed"
              /\ UNCHANGED <<words_to_test, current_word_index, test_results,
                             current_word_data, practice_disabled, announced,
                             speech, typed_lines, results_label>>
         ELSE LET results == Append(test_results,
                                    [correct |-> current_word_data,
                                     typed |-> Strip(text)])
              IN  /\ test_results' = results
                  /\ typed_lines' = Append(typed_lines, text)
                  /\ current_word_index' = current_word_index + 1
                  /\ NextWord(current_word_index + 1, results)
    /\ UNCHANGED <<variant, full_word_list, pending, info_label, selVars, loadVars>>

\* ResultsScreen.practice_again, which the practice button calls
GuiPracticeAgain ==
    /\ variant = "gui"
    /\ pc = "results"
    /\ ~practice_disabled
    /\ pending < MaxPending
    /\ TestEnter
    /\ UNCHANGED <<variant, full_word_list, words_to_test, current_word_data,
                   practice_disabled, info_label, selVars, loadVars>>

(***************************************************************************)
(* Terminal variant (spelling_app_v2.0.py).  One step runs the code from   *)
(* one input() to the next; pc names the input() the program waits at.     *)
(* The locals of start_spelling_test keep their last values after it       *)
(* returns.                                                                *)
(***************************************************************************)
\* main, choices 1 and 2: a list was created or loaded and is installed
TermInstall ==
    /\ variant = "term"
    /\ pc = "menu"
    /\ \E loaded \in (LoadResults \ {<<>>}) \cup JsonLoadResults :
         full_word_list' = loaded
    /\ UNCHANGED <<variant, pc, words_to_test, current_word_index,
                   test_results, current_word_data, pending,
                   practice_disabled, info_label, announced, speech,
                   typed_lines, results_label, selVars, loadVars>>

\* main, choice 4: start_spelling_test(word_list) up to the selection prompt
TermStart ==
    /\ variant = "term"
    /\ pc = "menu"
    /\ pc' = IF full_word_list = <<>> THEN "menu" ELSE "select"
    /\ UNCHANGED <<variant, full_word_list, words_to_test, current_word_index,
                   test_results, current_word_data, pending,
                   practice_disabled, info_label, announced, speech,
                   typed_lines, results_label, selVars, loadVars>>

\* start_spelling_test from the selection typed to the first announcement
TermSelect ==
    /\ variant = "term"
    /\ pc = "select"
    /\ \E raw \in SessionInputs :
         LET selected == select_words_for_test(raw, full_word_list)
         IN  IF selected = <<>>
             THEN /\ pc' = "menu"
                  /\ UNCHANGED <<words_to_test, current_word_index,
                                 test_results, announced, speech,
                                 typed_lines, results_label>>
             ELSE /\ pc' = "announce"
                  /\ words_to_test' = selected
                  /\ current_word_index' = 0
                  /\ test_results' = <<>>
                  /\ announced' = <<>>
                  /\ speech' = "none"
                  /\ typed_lines' = <<>>
                  /\ results_label' = NoReport
    /\ UNCHANGED <<variant, full_word_list, current_word_data, pending,
                   practice_disabled, info_label, selVars, loadVars>>

\* the body of the for loop up to input(): the word is spoken, twice
TermAnnounce ==
    /\ variant = "term"
    /\ pc = "announce"
    /\ announced' = Append(announced, current_word_index + 1)
    /\ \E o1, o2 \in SpeakOutcomes :
         /\ speech' = TermSpeakTwice(o1, o2)
         /\ pc' = IF speech' = "raised" THEN "crashed" ELSE "input"
    /\ UNCHANGED <<variant, full_word_list, words_to_test, current_word_index,
                   test_results, current_word_data, pending,
                   practice_disabled, info_label, typed_lines, results_label,
                   selVars, loadVars>>

\* what follows the for loop when the round had misses or not: the prompt
\* "practice these words again?", or the break that ends the session
TermAfterRound(results) ==
    IF Misspelled(results) = <<>> THEN "menu" ELSE "prompt"

\* text.ljust(width)
Ljust(text, width) ==
    [k \in 1..(IF Len(text) > width THEN Len(text) ELSE width) |->
        IF k <= Len(text) THEN text[k] ELSE " "]

\* max(len(item['correct']['word']) for item in misspelled_words)
MaxLenOf(misspelled_words) ==
    CHOOSE n \in {Len(misspelled_words[k].correct.word) :
                     k \in 1..Len(misspelled_words)} :
        \A k \in 1..Len(misspelled_words) :
            Len(misspelled_words[k].correct.word) <= n

\* what start_spelling_test prints after a round: the congratulation, or a
\* table with one row for each misspelled word, the word padded to the
\* longest one and the answer as it was typed
TermReport(results) ==
    IF Misspelled(results) = <<>>
    THEN [kind |-> "congratulations", rows |-> <<>>]
    ELSE [kind |-> "practice",
          rows |-> [k \in 1..Len(Misspelled(results)) |->
                       LET item == Misspelled(results)[k]
                       IN  [typed |-> item.typed,
                            correct |-> Ljust(item.correct.word,
                                              MaxLenOf(Misspelled(results)))]]]

\* from the answer typed to the next input(): the result is appended and the
\* loop goes on, or the round is over and is scored
TermInput ==
    /\ variant = "term"
    /\ pc = "input"
    /\ \E text \in TypedTexts :
         LET item == words_to_test[current_word_index + 1]
             results == Append(test_results,
                               [correct |-> item, typed |-> Strip(text)])
         IN  /\ test_results' = results
             /\ typed_lines' = Append(typed_lines, text)
             /\ current_word_index' = current_word_index + 1
             /\ IF current_word_index + 1 < Len(words_to_test)
                THEN /\ pc' = "announce"
                     /\ UNCHANGED results_label
                ELSE /\ pc' = TermAfterRound(results)
                     /\ results_label' = TermReport(results)
    /\ UNCHANGED <<variant, full_word_list, words_to_test, current_word_data,
                   pending, practice_disabled, info_label, announced, speech,
                   selVars, loadVars>>

\* a prompt after which the misses are kept in the list that was loaded
TermPromptOnList ==
    /\ variant = "term"
    /\ pc = "prompt"
    /\ \E answer \in PromptAnswers :
         IF Lower(Strip(answer)) = <<"y">>
         THEN /\ words_to_test' = RetrySet(test_results)
              /\ full_word_list' = RetrySet(test_results)
              /\ test_results' = <<>>
              /\ current_word_index' = 0
              /\ announced' = <<>>
              /\ speech' = "none"
              /\ typed_lines' = <<>>
              /\ results_label' = NoReport
              /\ pc' = "announce"
         ELSE /\ pc' = "menu"
              /\ UNCHANGED <<words_to_test, full_word_list, test_results,
                             current_word_index, announced, speech,
                             typed_lines, results_label>>
    /\ UNCHANGED <<variant, current_word_data, pending, practice_disabled,
                   info_label, selVars, loadVars>>

\* the answer to "Would you like to practice these words again? (y/n)"
TermPrompt ==
    /\ variant = "term"
    /\ pc = "prompt"
    /\ \E answer \in PromptAnswers :
         IF Lower(Strip(answer)) = <<"y">>
         THEN /\ words_to_test' = RetrySet(test_results)
              /\ test_results' = <<>>
              /\ current_word_index' = 0
              /\ announced' = <<>>
              /\ speech' = "none"
              /\ typed_lines' = <<>>
              /\ results_label' = NoReport
              /\ pc' = "announce"
         ELSE /\ pc' = "menu"
              /\ UNCHANGED <<words_to_test, test_results, current_word_index,
                             announced, speech, typed_lines, results_label>>
    /\ UNCHANGED <<variant, full_word_list, current_word_data, pending,
                   practice_disabled, info_label, selVars, loadVars>>

(***************************************************************************)
(* The session machines.                                                   *)
(***************************************************************************)
Init ==
    /\ variant \in {"gui", "term"}
    /\ pc = IF variant = "gui" THEN "main_menu" ELSE "menu"
    /\ full_word_list = <<>>
    /\ words_to_test = <<>>
    /\ current_word_index = 0
    /\ test_results = <<>>
    /\ current_word_data = NoData
    /\ pending = 0
    /\ practice_disabled = FALSE
    /\ info_label = "none"
    /\ announced = <<>>
    /\ speech = "none"
    /\ typed_lines = <<>>
    /\ results_label = NoReport
    /\ LoadIdle
    /\ sel_input = <<>>
    /\ sel_atoms = <<>>
    /\ sel_words = <<>>
    /\ sel_ids = {}
    /\ sel_out = <<>>

Next ==
    \/ GuiLoad
    \/ GuiStartTest
    \/ GuiTimer
    \/ GuiSubmit
    \/ GuiPracticeAgain
    \/ TermInstall
    \/ TermStart
    \/ TermSelect
    \/ TermAnnounce
    \/ TermInput
    \/ TermPrompt

Spec == Init /\ [][Next]_vars

(***************************************************************************)
(* The selection parsers on their own: an expression and a word list are   *)
(* drawn, and one of the two parsers is applied.                           *)
(***************************************************************************)
\* the characters of the expressions enumerated exhaustively
RawChars == {"0", "1", "2", "-", ",", " ", "x"}

RawInputs == UNION {[1..k -> RawChars] : k \in 0..MaxLen}

\* the keyword in every letter case, bare or padded with blanks
KeywordInputs ==
    {l \o <<a, l1, l2>> \o r :
        a \in {"a", "A"}, l1 \in {"l", "L"}, l2 \in {"l", "L"},
        l \in {<<>>, <<" ">>}, r \in {<<>>, <<" ">>}}

\* an atom is <<n>>, written n, or <<start, end>>, written start-end
AtomSet ==
    {<<n>> : n \in 0..MaxNum} \cup {<<a, b>> : a, b \in 0..MaxNum}

ExampleExprs ==
    { <<(<<2, 4>>)>>,
      <<(<<1>>), (<<3>>), (<<5, 5>>)>>,
      <<(<<3>>), (<<1>>)>>,
      <<(<<9, 11>>)>>,
      <<(<<5, 2>>), (<<10>>)>> }

AtomExprs == UNION {[1..k -> AtomSet] : k \in 1..MaxAtoms} \cup ExampleExprs

RenderAtom(atom) ==
    IF Len(atom) = 1 THEN Str(atom[1])
    ELSE Str(atom[1]) \o <<"-">> \o Str(atom[2])

\* the atoms written out and joined by commas
RECURSIVE RenderExpr(_)
RenderExpr(atoms) ==
    IF Len(atoms) = 1 THEN RenderAtom(atoms[1])
    ELSE RenderAtom(atoms[1]) \o <<",">> \o RenderExpr(Tail(atoms))

\* the atoms written out and joined by a comma and a blank, as in the
\* prompt's own example "1-5, 8, 10-12"
RECURSIVE RenderSpaced(_)
RenderSpaced(atoms) ==
    IF Len(atoms) = 1 THEN RenderAtom(atoms[1])
    ELSE RenderAtom(atoms[1]) \o <<",", " ">> \o RenderSpaced(Tail(atoms))

\* ids 1 to 6
Ids6 ==
    <<Rec(<<"1">>, CAT), Rec(<<"2">>, DOG), Rec(<<"3">>, FISH),
      Rec(<<"4">>, CAT), Rec(<<"5">>, DOG), Rec(<<"6">>, FISH)>>

\* ids of a tabular source: not in order, one repeated, one with a leading zero
IdsCsv ==
    <<Rec(<<"1", "0">>, CAT), Rec(<<"2">>, DOG), Rec(<<"0", "3">>, FISH),
      Rec(<<"2">>, FISH), Rec(<<"1", "1">>, DOG), Rec(<<"0">>, CAT)>>

SelLists == {<<>>, Ids6, IdsCsv}

SelInit ==
    /\ variant = "select"
    /\ pc = "ready"
    /\ full_word_list = <<>>
    /\ words_to_test = <<>>
    /\ current_word_index = 0
    /\ test_results = <<>>
    /\ current_word_data = NoData
    /\ pending = 0
    /\ practice_disabled = FALSE
    /\ info_label = "none"
    /\ announced = <<>>
    /\ speech = "none"
    /\ typed_lines = <<>>
    /\ results_label = NoReport
    /\ LoadIdle
    /\ sel_words \in SelLists
    /\ \/ /\ sel_atoms = <<>>
          /\ sel_input \in RawInputs \cup KeywordInputs
       \/ /\ sel_atoms \in AtomExprs
          /\ sel_input \in {RenderExpr(sel_atoms), RenderSpaced(sel_atoms)}
    /\ sel_ids = {}
    /\ sel_out = <<>>

\* parse_selection(sel_input, sel_words)
SelGui ==
    /\ variant = "select"
    /\ pc = "ready"
    /\ pc' = "parsed_gui"
    /\ sel_ids' = SelectedIdsGui(sel_input)
    /\ sel_out' = parse_selection(sel_input, sel_words)
    /\ UNCHANGED <<variant, full_word_list, testVars, sel_input, sel_atoms,
                   sel_words, loadVars>>

\* select_words_for_test(sel_words), sel_input being the line typed
SelTerm ==
    /\ variant = "select"
    /\ pc = "ready"
    /\ pc' = "parsed_term"
    /\ sel_ids' = SelectedIdsTerm(Lower(Strip(sel_input)))
    /\ sel_out' = select_words_for_test(sel_input, sel_words)
    /\ UNCHANGED <<variant, full_word_list, testVars, sel_input, sel_atoms,
                   sel_words, loadVars>>

SelNext == SelGui \/ SelTerm

SelSpec == SelInit /\ [][SelNext]_vars

(***************************************************************************)
(* Properties.                                                             *)
(***************************************************************************)
\* pc of a round in progress
InProgress == pc \in {"spelling_test", "announce", "input"}

\* pc of a completed round whose outcome is on display
RoundComplete == pc \in {"results", "prompt"}

\* this step accepts an answer
AnswerAccepted == Len(test_results') = Len(test_results) + 1

\* C1: an answer for index i is accepted only after the words of indexes
\* 0..i have each been announced once, in order, and nothing else has.
AnnounceThenAnswer ==
    [][AnswerAccepted =>
         announced = [k \in 1..(current_word_index + 1) |-> k]]_vars

\* C2: the results of a round in progress pair the k-th answer with the
\* k-th word of the working set, and there is one result per index passed.
ResultPairing ==
    InProgress =>
        /\ Len(test_results) = current_word_index
        /\ \A k \in 1..Len(test_results) :
             /\ k <= Len(words_to_test)
             /\ test_results[k].correct = words_to_test[k]

\* the indexes of the results that are misses: the answer and the word differ
\* once both are lowercased
MissIdx(results) ==
    {k \in 1..Len(results) :
        Lower(results[k].correct.word) # Lower(results[k].typed)}

\* the index of the j-th miss
NthMiss(results, j) ==
    CHOOSE k \in MissIdx(results) :
        Cardinality({m \in MissIdx(results) : m <= k}) = j

\* this step starts a retry round
RetryStep ==
    \/ pc = "results" /\ pc' = "spelling_test"
    \/ pc = "prompt" /\ pc' = "announce"

\* C3: a retry round starts only after a round with a miss, at index 0 with
\* no results, and its working set is the correct records of the misses of
\* the round just completed, one per miss, in their order.
RetrySetExact ==
    [][RetryStep =>
         /\ MissIdx(test_results) # {}
         /\ Len(words_to_test') = Cardinality(MissIdx(test_results))
         /\ \A j \in 1..Len(words_to_test') :
              words_to_test'[j] = test_results[NthMiss(test_results, j)].correct
         /\ current_word_index' = 0
         /\ test_results' = <<>>]_vars

\* the retry round of the scenario: cat and fish were asked, cat is asked again
RetryRoundStarted ==
    /\ variant = "gui"
    /\ pc = "spelling_test"
    /\ full_word_list = List3
    /\ current_word_data = Rec(<<"3">>, FISH)
    /\ words_to_test = <<Rec(<<"1">>, CAT)>>
    /\ test_results = <<>>
    /\ current_word_index = 0

\* C4: after a round without a miss nothing starts a new round: in the GUI
\* the screen, the working set, the index and the results stay as they are,
\* and the terminal never asks whether to practice again.
RetryNoOpAfterPerfect ==
    [][/\ (pc = "results" /\ MissIdx(test_results) = {}) =>
            UNCHANGED <<pc, words_to_test, current_word_index, test_results>>
       /\ pc' = "prompt" => MissIdx(test_results') # {}]_vars

\* a perfect round over three words is on the results screen
PerfectRoundShown ==
    /\ variant = "gui"
    /\ pc = "results"
    /\ Len(test_results) = 3
    /\ MissIdx(test_results) = {}
    /\ practice_disabled

\* C5: a round in progress has a working set of at least one word, and the
\* terminal asks for a selection only of a list that has words.
NonEmptyWorkingSet ==
    /\ InProgress => words_to_test # <<>>
    /\ pc = "select" => full_word_list # <<>>

\* a selection that yields no record was refused and no round was entered
SelectionRejected ==
    /\ variant = "gui"
    /\ pc = "select_words"
    /\ info_label = "invalid"
    /\ words_to_test = <<>>
    /\ pending = 0

\* C6: while a round is in progress the index is below the size of the
\* working set and there are no more results than words; once the round is
\* complete no answer is accepted.
RoundCloses ==
    [][/\ InProgress' =>
            /\ current_word_index' < Len(words_to_test')
            /\ Len(test_results') <= Len(words_to_test')
       /\ RoundComplete => ~AnswerAccepted
       /\ (InProgress /\ AnswerAccepted
             /\ current_word_index' = Len(words_to_test)) => ~InProgress']_vars

\* a round over three words has been answered to the end
RoundOfThreeClosed ==
    /\ pc \in {"results", "prompt"}
    /\ Len(test_results) = 3
    /\ current_word_index = 3

\* the word of the current index has been announced
Awaited == \E k \in 1..Len(announced) : announced[k] = current_word_index + 1

\* C7: an answer submitted while no announced word awaits one is refused:
\* the working set, the index and the results stay as they are.
MisuseRejected ==
    [][(InProgress /\ ~Awaited) =>
         UNCHANGED <<words_to_test, current_word_index, test_results>>]_vars

SpeechFailed == speech \in {"text_shown", "error_printed", "raised"}

\* C8: whenever speak failed, the word was shown as text and the program
\* goes on.
DegradeNotFail == SpeechFailed => (speech = "text_shown" /\ pc # "crashed")

Parsed == pc \in {"parsed_gui", "parsed_term"}

\* C9: a blank expression and the keyword all, in any letter case, return
\* the word list as it is, from both parsers.
SelectAll ==
    (Parsed /\ (Strip(sel_input) = <<>> \/ Lower(Strip(sel_input)) = ALL)) =>
        sel_out = sel_words

\* the ids the atoms ask for: start..end of a range, n of a single integer,
\* each in its decimal form
WantedIds(atoms) ==
    UNION {IF Len(atoms[k]) = 1 THEN {Str(atoms[k][1])}
           ELSE {Str(i) : i \in atoms[k][1]..atoms[k][2]} : k \in 1..Len(atoms)}

\* C10: for an expression written from well-formed atoms both parsers
\* request exactly the ids of the atoms, and return the records of the list
\* that carry one of them.
AtomsAndRanges ==
    (Parsed /\ sel_atoms # <<>>) =>
        /\ sel_ids = WantedIds(sel_atoms)
        /\ \A k \in 1..Len(sel_words) :
             (sel_words[k].id \in WantedIds(sel_atoms)) <=>
                 (\E j \in 1..Len(sel_out) : sel_out[j] = sel_words[k])
        /\ (sel_words = Ids6 /\ sel_atoms = <<(<<2, 4>>)>>) =>
               sel_out = SubSeq(Ids6, 2, 4)

\* "1,3,5-5" over the ids 1 to 6 gave the records 1, 3 and 5
AtomsExampleParsed ==
    /\ pc = "parsed_gui"
    /\ sel_atoms = <<(<<1>>), (<<3>>), (<<5, 5>>)>>
    /\ sel_words = Ids6
    /\ sel_out = <<Ids6[1], Ids6[3], Ids6[5]>>

\* the expression is blank or is the keyword all
BlankOrAll(expr) == Strip(expr) = <<>> \/ Lower(Strip(expr)) = ALL

\* the parser that ran, applied to another expression
SameParser(expr, words) ==
    IF pc = "parsed_gui" THEN parse_selection(expr, words)
    ELSE select_words_for_test(expr, words)

\* the j-th smallest element of a set of indexes
NthOf(idx, j) == CHOOSE k \in idx : Cardinality({m \in idx : m <= k}) = j

\* the atoms behind one another, last first
ReverseSeq(seq) == [k \in 1..Len(seq) |-> seq[Len(seq) + 1 - k]]

\* C11: the list returned holds the records of the word list whose id was
\* requested, each once, in the order of the word list; the order of the
\* atoms and their repetition do not change it.
SelectionOrder ==
    (Parsed /\ ~BlankOrAll(sel_input)) =>
        /\ LET idx == {k \in 1..Len(sel_words) : sel_words[k].id \in sel_ids}
           IN  /\ Len(sel_out) = Cardinality(idx)
               /\ \A j \in 1..Len(sel_out) : sel_out[j] = sel_words[NthOf(idx, j)]
        /\ sel_atoms # <<>> =>
             /\ sel_out = SameParser(RenderExpr(ReverseSeq(sel_atoms)), sel_words)
             /\ sel_out = SameParser(RenderExpr(sel_atoms \o sel_atoms), sel_words)

\* "3,1" over the ids 1 to 6 gave the records 1 and 3, in that order
ReversedAtomsParsed ==
    /\ pc = "parsed_gui"
    /\ sel_atoms = <<(<<3>>), (<<1>>)>>
    /\ sel_words = Ids6
    /\ sel_out = <<Ids6[1], Ids6[3]>>

\* text is an integer literal, blanks around it allowed
IsNumber(text) ==
    /\ Strip(text) # <<>>
    /\ \A i \in 1..Len(Strip(text)) : Strip(text)[i] \in DigitChars

\* the atom is an integer, or two integers with one hyphen between them
WellFormedAtom(atom) ==
    \/ IsNumber(atom)
    \/ \E i \in 1..Len(atom) :
         /\ atom[i] = "-"
         /\ IsNumber(SubSeq(atom, 1, i - 1))
         /\ IsNumber(SubSeq(atom, i + 1, Len(atom)))

\* the well-formed atoms among parts, in order
RECURSIVE GoodAtoms(_)
GoodAtoms(parts) ==
    IF parts = <<>> THEN <<>>
    ELSE (IF WellFormedAtom(Head(parts)) THEN <<Head(parts)>> ELSE <<>>)
             \o GoodAtoms(Tail(parts))

RECURSIVE JoinComma(_)
JoinComma(parts) ==
    IF Len(parts) = 1 THEN parts[1]
    ELSE parts[1] \o <<",">> \o JoinComma(Tail(parts))

\* C12: the answer to an expression is the answer to its well-formed atoms
\* alone, and is empty when it has none.
MalformedIgnored ==
    (Parsed /\ ~BlankOrAll(sel_input)) =>
        LET good == GoodAtoms(Split(sel_input, ","))
        IN  IF good = <<>>
            THEN sel_out = <<>> /\ sel_ids = {}
            ELSE sel_out = SameParser(JoinComma(good), sel_words)

\* "x,2" over the ids 1 to 6 gave the record 2
MalformedAtomSkipped ==
    /\ pc = "parsed_term"
    /\ sel_input = <<"x", ",", "2">>
    /\ sel_words = Ids6
    /\ sel_out = <<Ids6[2]>>

\* the report of the round just completed is on display
ReportShown ==
    \/ variant = "gui" /\ pc = "results"
    \/ variant = "term" /\ pc \in {"prompt", "menu"} /\ test_results # <<>>

\* the k-th answer as typed, trimmed and lowercased, differs from the
\* lowercased word it answers
MissByRule(k) ==
    Lower(Strip(typed_lines[k])) # Lower(test_results[k].correct.word)

\* the program's verdict on every result follows the rule, and so does the
\* verdict on the round
ScoringNormalised ==
    /\ Len(typed_lines) = Len(test_results)
    /\ \A k \in 1..Len(test_results) :
         IsMiss(test_results[k]) <=> MissByRule(k)
    /\ ReportShown =>
         (results_label.kind = "congratulations" <=>
              \A k \in 1..Len(test_results) : ~MissByRule(k))

\* C13: a result is misspelled exactly when the answer, trimmed and
\* lowercased, differs from the lowercased word; an empty answer is always a
\* miss; a round is perfect exactly when no result is misspelled.
ScoringRule ==
    /\ ScoringNormalised
    /\ \A k \in 1..Len(test_results) :
         Strip(typed_lines[k]) = <<>> => IsMiss(test_results[k])

\* the first k characters of text are prefix
StartsWith(text, prefix) ==
    Len(text) >= Len(prefix) /\ SubSeq(text, 1, Len(prefix)) = prefix

\* C20: the report of a completed round shows one row for each misspelled
\* result, in order, with the word and the answer typed, the placeholder "no
\* answer" standing for an empty answer; a perfect round shows the
\* congratulation and offers no retry.
ReportView ==
    ReportShown =>
        IF MissIdx(test_results) = {}
        THEN /\ results_label = [kind |-> "congratulations", rows |-> <<>>]
             /\ variant = "gui" => practice_disabled
             /\ variant = "term" => pc = "menu"
        ELSE /\ results_label.kind = "practice"
             /\ Len(results_label.rows) = Cardinality(MissIdx(test_results))
             /\ \A j \in 1..Len(results_label.rows) :
                  LET res == test_results[NthMiss(test_results, j)]
                      row == results_label.rows[j]
                  IN  /\ StartsWith(row.correct, res.correct.word)
                      /\ row.typed = IF res.typed = <<>> THEN NoAnswer
                                     ELSE res.typed
             /\ variant = "gui" => ~practice_disabled

(***************************************************************************)
(* Loaders.  A file is what the program reads from it: the lines of a text *)
(* file without their line ends, the rows csv.reader yields, the text of a *)
(* .json file.                                                             *)
(***************************************************************************)
\* a loop that numbers the records instead of the lines
RECURSIVE TxtWordsDense(_, _)
TxtWordsDense(lines, i) ==
    IF lines = <<>> THEN <<>>
    ELSE IF Strip(Head(lines)) # <<>>
    THEN <<Rec(Str(i + 1), Strip(Head(lines)))>>
             \o TxtWordsDense(Tail(lines), i + 1)
    ELSE TxtWordsDense(Tail(lines), i)

\* the for loop over enumerate(f) of a .txt file, i being the index of the
\* first of lines
RECURSIVE TxtWords(_, _)
TxtWords(lines, i) ==
    IF lines = <<>> THEN <<>>
    ELSE (IF Strip(Head(lines)) # <<>>
          THEN <<Rec(Str(i + 1), Strip(Head(lines)))>>
          ELSE <<>>) \o TxtWords(Tail(lines), i + 1)

\* next(reader, None): the rows after the first one
SkipHeader(rows) == IF rows = <<>> THEN <<>> ELSE Tail(rows)

\* a row test that takes a row whose second cell is blank
CsvRowOkIdOnly(row) == Len(row) >= 2 /\ Strip(row[1]) # <<>>

\* len(row) >= 2 and row[0].strip() and row[1].strip()
CsvRowOk(row) ==
    Len(row) >= 2 /\ Strip(row[1]) # <<>> /\ Strip(row[2]) # <<>>

\* the for loop over the rows of the reader
RECURSIVE CsvWords(_)
CsvWords(rows) ==
    IF rows = <<>> THEN <<>>
    ELSE (IF CsvRowOk(Head(rows))
          THEN <<Rec(Strip(Head(rows)[1]), Strip(Head(rows)[2]))>>
          ELSE <<>>) \o CsvWords(Tail(rows))

\* words after the if/elif over the extension of an existing, readable file
ParsedWords(filepath) ==
    CASE filepath.ext = "txt" -> TxtWords(filepath.lines, 0)
      [] filepath.ext = "csv" -> CsvWords(SkipHeader(filepath.rows))
      [] OTHER -> <<>>

\* load_words_from_path of the GUI: the list returned and the lines printed.
\* open() raises for a path that is missing or cannot be read, and only the
\* .txt and .csv branches open the file
load_words_from_path(filepath) ==
    IF filepath.ext \in {"txt", "csv"} /\ ~(filepath.exists /\ filepath.readable)
    THEN [words |-> <<>>, printed |-> <<"Error loading file">>]
    ELSE [words |-> ParsedWords(filepath), printed |-> <<>>]

\* load_from_file of the terminal: the list returned, <<>> standing for None,
\* and the line printed
load_from_file(filename_input) ==
    IF ~filename_input.exists
    THEN [words |-> <<>>, printed |-> <<"not found">>]
    ELSE IF filename_input.ext \notin {"txt", "csv"}
    THEN [words |-> <<>>, printed |-> <<"Unsupported file type">>]
    ELSE IF ~filename_input.readable
    THEN [words |-> <<>>, printed |-> <<"An error occurred">>]
    ELSE IF ParsedWords(filename_input) = <<>>
    THEN [words |-> <<>>, printed |-> <<"The file is empty">>]
    ELSE [words |-> ParsedWords(filename_input),
          printed |-> <<"Successfully loaded">>]

\* [word.strip() for word in row if word.strip()] of the older terminal
\* program, whose lists hold bare words
RECURSIVE StrippedCells(_)
StrippedCells(row) ==
    IF row = <<>> THEN <<>>
    ELSE (IF Strip(Head(row)) # <<>>
          THEN <<[str |-> Strip(Head(row))]>>
          ELSE <<>>) \o StrippedCells(Tail(row))

\* for row in reader: words.extend(...) of the older terminal program: no
\* row is skipped
RECURSIVE CsvWordsV2(_)
CsvWordsV2(rows) ==
    IF rows = <<>> THEN <<>>
    ELSE StrippedCells(Head(rows)) \o CsvWordsV2(Tail(rows))

\* words of the older terminal program after the if/elif over the extension
ParsedWordsV2(filename) ==
    CASE filename.ext = "txt" -> StrippedCells(filename.lines)
      [] filename.ext = "csv" -> CsvWordsV2(filename.rows)
      [] OTHER -> <<>>

\* load_from_file of the older terminal program: the list returned, <<>>
\* standing for None, and the line printed
load_from_file_v2(filename) ==
    IF ~filename.exists
    THEN [words |-> <<>>, printed |-> <<"not found">>]
    ELSE IF filename.ext \notin {"txt", "csv"}
    THEN [words |-> <<>>, printed |-> <<"Unsupported file type">>]
    ELSE IF ~filename.readable
    THEN [words |-> <<>>, printed |-> <<"An error occurred">>]
    ELSE IF ParsedWordsV2(filename) = <<>>
    THEN [words |-> <<>>, printed |-> <<"The file is empty">>]
    ELSE [words |-> ParsedWordsV2(filename),
          printed |-> <<"Successfully loaded">>]

(***************************************************************************)
(* The sources a load can be given.                                        *)
(***************************************************************************)
\* the lines of the text files
TxtLines == {<<>>, <<" ">>, CAT, <<" ", "d", "o", "g", " ">>}

TxtFiles == UNION {[1..n -> TxtLines] : n \in 0..MaxLines}

\* the rows of the CSV files: an empty row, two rows that hold a record, a
\* row of one cell, a row whose id is blank, a row whose word is blank
CsvRows ==
    {<<>>,
     <<(<<"1">>), CAT>>,
     <<(<<" ", "2">>), (<<" ", "d", "o", "g", " ">>)>>,
     <<(<<"3">>)>>,
     <<(<<" ">>), CAT>>,
     <<(<<"4">>), (<<" ">>), DOG>>}

CsvFiles == UNION {[1..n -> CsvRows] : n \in 0..MaxRows}

\* two longer CSV files: a header row and two records; two records behind
\* a row that holds a record itself, with a row of one cell between them
CsvExamples ==
    {<< <<(<<"i", "d">>), (<<"w", "o", "r", "d">>)>>,
        <<(<<"7">>), DOG>>,
        <<(<<"3">>), CAT>> >>,
     << <<(<<"1">>), CAT>>,
        <<(<<"9">>), FISH>>,
        <<(<<"3">>)>>,
        <<(<<" ", "2">>), (<<" ", "d", "o", "g", " ">>)>> >>}

\* a path, with what the file system answers for it
Path(exists, readable, ext, lines, rows) ==
    [kind |-> "file", exists |-> exists, readable |-> readable, ext |-> ext,
     lines |-> lines, rows |-> rows]

\* the paths a load is given: text and CSV files, a file of another
\* extension, paths that do not exist, files that cannot be read
Sources ==
    {Path(TRUE, TRUE, "txt", lines, <<>>) : lines \in TxtFiles}
        \cup {Path(TRUE, TRUE, "csv", <<>>, rows) :
                    rows \in CsvFiles \cup CsvExamples}
        \cup {Path(TRUE, TRUE, "other", <<>>, <<>>),
              Path(FALSE, FALSE, "txt", <<>>, <<>>),
              Path(FALSE, FALSE, "other", <<>>, <<>>),
              Path(TRUE, FALSE, "csv", <<>>, <<>>)}

\* the file chooser was closed with no selection
Cancelled == [kind |-> "cancel"]

\* a .json file of the working directory
JsonFile(text) == [kind |-> "json", text |-> text]

\* the .json files of the working directory that save_list did not write: a
\* list of words as save_list of spelling_app_v2.py writes it, a list with a
\* blank and a padded word, an empty list, and a text that is not JSON
ExternalJson ==
    {Dumps(<<[str |-> CAT], [str |-> DOG]>>),
     Dumps(<<Rec(<<"1">>, <<>>), Rec(<<"2">>, <<" ", "c", "a", "t">>)>>),
     Dumps(<<>>),
     <<"x">>}

\* the lines typed in a manual entry: a blank line, the end token in mixed
\* case and padded, a word, a padded word with a quote and a backslash
EntryLines ==
    {<<>>, <<" ", "D", "o", "N", "E", " ">>, CAT, <<" ", "a", "\"", "\\", " ">>}

DONE == <<"d", "o", "n", "e">>

(***************************************************************************)
(* Loading, saving and manual entry as steps of the two programs.  A step  *)
(* that is not a load leaves source at NoSource.                           *)
(***************************************************************************)
\* handle_selection with a selection, and load_specific_file
GuiLoadFile ==
    /\ variant = "gui"
    /\ pc = "main_menu"
    /\ \E filepath \in Sources, recent \in {load_recent_files(recent_files)} :
         LET loaded == load_words_from_path(filepath)
         IN  /\ source' = filepath
             /\ full_word_list' = loaded.words
             /\ IF loaded.words # <<>>
                THEN /\ \E outcome \in WriteOutcomes :
                          /\ recent_files' =
                                 save_recent_file(PathOf(filepath), recent,
                                                  recent_files, outcome)
                          /\ recent_call' =
                                 SaveCall(PathOf(filepath), outcome)
                     /\ pc' = "select_words"
                     /\ info_label' = "loaded"
                     /\ load_outcome' = loaded.printed
                ELSE /\ load_outcome' =
                            loaded.printed \o <<"Could not load words">>
                     /\ UNCHANGED <<pc, info_label, recentVars>>
    /\ UNCHANGED <<variant, words_to_test, current_word_index, test_results,
                   current_word_data, pending, practice_disabled, announced,
                   speech, typed_lines, results_label, selVars, saved_file,
                   saved_list, entry_lines, entry_words>>

\* handle_selection with no selection: nothing is loaded
GuiCancel ==
    /\ variant = "gui"
    /\ pc = "main_menu"
    /\ source' = Cancelled
    /\ load_outcome' = <<>>
    /\ UNCHANGED <<variant, pc, full_word_list, testVars, selVars, recentVars, saved_file,
                   saved_list, entry_lines, entry_words>>

\* remove_and_refresh_popup, from the X button of a file the popup lists
GuiRemoveRecent ==
    /\ variant = "gui"
    /\ pc = "main_menu"
    /\ \E loaded \in {load_recent_files(recent_files)} :
         \E k \in 1..Len(loaded), outcome \in WriteOutcomes :
             /\ recent_files' =
                    remove_recent_file(loaded[k], loaded, recent_files, outcome)
             /\ recent_call' = RemoveCall(loaded[k], loaded, outcome)
    /\ source' = NoSource
    /\ load_outcome' = <<>>
    /\ UNCHANGED <<variant, pc, full_word_list, testVars, selVars, saved_file,
                   saved_list, entry_lines, entry_words>>

\* the way back from the selection screen to the main menu
GuiBackToMenu ==
    /\ variant = "gui"
    /\ pc = "select_words"
    /\ pc' = "main_menu"
    /\ source' = NoSource
    /\ load_outcome' = <<>>
    /\ UNCHANGED <<variant, full_word_list, testVars, selVars, recentVars, saved_file,
                   saved_list, entry_lines, entry_words>>

\* main, choice 1: create_word_list shows its menu
TermCreateMenu ==
    /\ variant = "term"
    /\ pc = "menu"
    /\ pc' = "create_menu"
    /\ source' = NoSource
    /\ load_outcome' = <<>>
    /\ entry_lines' = <<>>
    /\ entry_words' = <<>>
    /\ UNCHANGED <<variant, full_word_list, testVars, selVars, recentVars, saved_file,
                   saved_list>>

\* create_word_list, choice 3: None is returned and main installs nothing
TermCreateBack ==
    /\ variant = "term"
    /\ pc = "create_menu"
    /\ pc' = "menu"
    /\ source' = Cancelled
    /\ load_outcome' = <<>>
    /\ UNCHANGED <<variant, full_word_list, testVars, selVars, recentVars, saved_file,
                   saved_list, entry_lines, entry_words>>

\* create_word_list, choice 2: load_from_file up to its "Press Enter to
\* continue..."
TermLoadFile ==
    /\ variant = "term"
    /\ pc = "create_menu"
    /\ \E filename_input \in Sources :
         LET loaded == load_from_file(filename_input)
         IN  /\ source' = filename_input
             /\ load_outcome' = loaded.printed
             /\ entry_words' = loaded.words
    /\ pc' = "continue_file"
    /\ UNCHANGED <<variant, full_word_list, testVars, selVars, recentVars, saved_file,
                   saved_list, entry_lines>>

\* Enter at the end of load_from_file: a list is returned through
\* create_word_list to main, which installs it; after None the menu of
\* create_word_list is shown again
TermContinueFile ==
    /\ variant = "term"
    /\ pc = "continue_file"
    /\ IF entry_words # <<>>
       THEN /\ full_word_list' = entry_words
            /\ pc' = "menu"
       ELSE /\ pc' = "create_menu"
            /\ UNCHANGED full_word_list
    /\ source' = NoSource
    /\ load_outcome' = <<>>
    /\ entry_words' = <<>>
    /\ UNCHANGED <<variant, testVars, selVars, recentVars, saved_file, saved_list,
                   entry_lines>>

\* create_word_list, choice 1: create_word_list_manually up to its prompt
TermManualStart ==
    /\ variant = "term"
    /\ pc = "create_menu"
    /\ pc' = "manual"
    /\ source' = NoSource
    /\ load_outcome' = <<>>
    /\ entry_lines' = <<>>
    /\ entry_words' = <<>>
    /\ UNCHANGED <<variant, full_word_list, testVars, selVars, recentVars, saved_file,
                   saved_list>>

\* a record whose id counts from 0
ManualRecordFromZero(words, word_text) == Rec(Str(Len(words)), word_text)

\* {'id': str(len(words) + 1), 'word': word_text}
ManualRecord(words, word_text) == Rec(Str(Len(words) + 1), word_text)

\* one line typed at the prompt of create_word_list_manually; at the end the
\* list is returned to main, which installs it
TermManualLine ==
    /\ variant = "term"
    /\ pc = "manual"
    /\ Len(entry_lines) < MaxTyped
    /\ \E line \in EntryLines :
         LET word_text == Strip(line)
         IN  /\ entry_lines' = Append(entry_lines, line)
             /\ IF Lower(word_text) = DONE
                THEN IF entry_words # <<>>
                     THEN /\ full_word_list' = entry_words
                          /\ pc' = "menu"
                          /\ load_outcome' = <<>>
                          /\ UNCHANGED entry_words
                     ELSE /\ load_outcome' = <<"Please enter at least one word">>
                          /\ UNCHANGED <<full_word_list, pc, entry_words>>
                ELSE /\ load_outcome' = <<>>
                     /\ entry_words' =
                            IF word_text # <<>>
                            THEN Append(entry_words,
                                        ManualRecord(entry_words, word_text))
                            ELSE entry_words
                     /\ UNCHANGED <<full_word_list, pc>>
    /\ UNCHANGED <<variant, testVars, selVars, recentVars, source, saved_file, saved_list>>

\* main, choice 3: save_list(word_list); open() succeeds or raises IOError
TermSaveList ==
    /\ variant = "term"
    /\ pc = "menu"
    /\ source' = NoSource
    /\ entry_lines' = <<>>
    /\ entry_words' = <<>>
    /\ IF full_word_list = <<>>
       THEN /\ load_outcome' = <<"No words to save">>
            /\ UNCHANGED <<saved_file, saved_list>>
       ELSE \E opened \in BOOLEAN :
              IF opened
              THEN /\ saved_file' = Dumps(full_word_list)
                   /\ saved_list' = full_word_list
                   /\ load_outcome' = <<"List successfully saved">>
              ELSE /\ load_outcome' = <<"Could not save file">>
                   /\ UNCHANGED <<saved_file, saved_list>>
    /\ UNCHANGED <<variant, pc, full_word_list, testVars, selVars, recentVars>>

\* main, choice 2: load_list up to its "Press Enter ...", the file chosen
\* being the one save_list wrote or another .json file, or the choice being
\* no number of the list; JSONDecodeError is a ValueError
TermLoadList ==
    /\ variant = "term"
    /\ pc = "menu"
    /\ pc' = "continue_list"
    /\ entry_lines' = <<>>
    /\ \/ \E text \in (ExternalJson \cup {saved_file}) \ {NoFile} :
            /\ source' = JsonFile(text)
            /\ IF Loads(text).ok
               THEN /\ load_outcome' = <<"Successfully loaded">>
                    /\ entry_words' = Loads(text).val
               ELSE /\ load_outcome' = <<"Invalid input">>
                    /\ entry_words' = <<>>
       \/ /\ source' = Cancelled
          /\ load_outcome' \in {<<"Invalid choice">>, <<"Invalid input">>}
          /\ entry_words' = <<>>
    /\ UNCHANGED <<variant, full_word_list, testVars, selVars, recentVars, saved_file,
                   saved_list>>

\* Enter at the end of load_list: main installs what was returned when it
\* is truthy
TermContinueList ==
    /\ variant = "term"
    /\ pc = "continue_list"
    /\ pc' = "menu"
    /\ full_word_list' = IF entry_words # <<>> THEN entry_words
                         ELSE full_word_list
    /\ source' = NoSource
    /\ load_outcome' = <<>>
    /\ entry_words' = <<>>
    /\ UNCHANGED <<variant, testVars, selVars, recentVars, saved_file, saved_list,
                   entry_lines>>

LoadInit ==
    /\ variant \in {"gui", "term"}
    /\ pc = IF variant = "gui" THEN "main_menu" ELSE "menu"
    /\ full_word_list = <<>>
    /\ words_to_test = <<>>
    /\ current_word_index = 0
    /\ test_results = <<>>
    /\ current_word_data = NoData
    /\ pending = 0
    /\ practice_disabled = FALSE
    /\ info_label = "none"
    /\ announced = <<>>
    /\ speech = "none"
    /\ typed_lines = <<>>
    /\ results_label = NoReport
    /\ LoadIdle
    /\ sel_input = <<>>
    /\ sel_atoms = <<>>
    /\ sel_words = <<>>
    /\ sel_ids = {}
    /\ sel_out = <<>>

LoadNext ==
    \/ GuiLoadFile
    \/ GuiCancel
    \/ GuiRemoveRecent
    \/ GuiBackToMenu
    \/ TermCreateMenu
    \/ TermCreateBack
    \/ TermLoadFile
    \/ TermContinueFile
    \/ TermManualStart
    \/ TermManualLine
    \/ TermSaveList
    \/ TermLoadList
    \/ TermContinueList

LoadSpec == LoadInit /\ [][LoadNext]_vars

(***************************************************************************)
(* Properties of loading, saving and manual entry.                         *)
(***************************************************************************)
\* the list a source holds: none when the path is missing, unreadable, of
\* another extension or without a usable record, when the text is not
\* JSON, and when nothing was chosen
Usable(src) ==
    CASE src.kind = "file" ->
             IF src.exists /\ src.readable THEN ParsedWords(src) ELSE <<>>
      [] src.kind = "json" ->
             IF Loads(src.text).ok THEN Loads(src.text).val ELSE <<>>
      [] OTHER -> <<>>

\* this step ends a load: the handler of the GUI, or Enter after the loader
\* of the terminal has printed its line
LoadEnds ==
    \/ variant = "gui" /\ source' # NoSource
    \/ variant = "term" /\ pc \in {"continue_file", "continue_list"}

\* the source of the load this step ends
Loaded == IF variant = "gui" THEN source' ELSE source

\* this step ends a manual entry
ManualEnds == pc = "manual" /\ pc' = "menu"

\* C14: a load that fails or is cancelled leaves the current list as it
\* was; the list changes only when a load succeeds or an entry ends, and a
\* successful load replaces it by the list loaded.
FailedLoadKeepsList ==
    [][/\ (LoadEnds /\ Usable(Loaded) = <<>>) =>
              full_word_list' = full_word_list
       /\ (LoadEnds /\ Usable(Loaded) # <<>>) =>
              full_word_list' = Usable(Loaded)
       /\ full_word_list' # full_word_list => (LoadEnds \/ ManualEnds)]_vars

\* C15: content that is not a sequence of {id, word} entries is never the
\* current word list.
MalformedRejected ==
    \A k \in 1..Len(full_word_list) :
        DOMAIN full_word_list[k] = {"id", "word"}

\* load_list has read the file save_list wrote
SavedFileRead ==
    /\ pc = "continue_list"
    /\ saved_file # NoFile
    /\ source = JsonFile(saved_file)

\* C16: loading the file save_list wrote gives the list that was saved, and
\* installing it makes the current list equal to that list.
RoundTrip ==
    [][SavedFileRead =>
         /\ load_outcome = <<"Successfully loaded">>
         /\ entry_words = saved_list
         /\ full_word_list' = saved_list]_vars

\* a saved list with a quote in a word was read back while another list was
\* the current one
RoundTripOfQuotedWord ==
    /\ SavedFileRead
    /\ entry_words = saved_list
    /\ full_word_list # saved_list
    /\ \E k \in 1..Len(saved_list) :
         /\ DOMAIN saved_list[k] = {"id", "word"}
         /\ Contains(saved_list[k].word, "\"")

\* the line is the end token, in any letter case
IsDoneLine(line) == Lower(Strip(line)) = DONE

\* the indexes of the lines that are a word
WordIdx(lines) ==
    {k \in 1..Len(lines) : Strip(lines[k]) # <<>> /\ ~IsDoneLine(lines[k])}

\* the words among lines, in order, numbered from 1
EnteredWords(lines) ==
    [j \in 1..Cardinality(WordIdx(lines)) |->
        [id |-> <<Digits[j + 1]>>,
         word |-> Strip(lines[NthOf(WordIdx(lines), j)])]]

\* every end token among the first n lines came before the first word
DoneOnlyBeforeWords(lines, n) ==
    \A k \in 1..n :
        IsDoneLine(lines[k]) => \A m \in WordIdx(lines) : m > k

NoEmptyWords ==
    \A k \in 1..Len(full_word_list) :
        "word" \in DOMAIN full_word_list[k] =>
            /\ full_word_list[k].word # <<>>
            /\ Strip(full_word_list[k].word) = full_word_list[k].word

\* why loading a path fails, or "ok"
FailureCase(src) ==
    IF ~src.exists THEN "not_found"
    ELSE IF src.ext \notin {"txt", "csv"} THEN "unsupported"
    ELSE IF ~src.readable THEN "unreadable"
    ELSE IF ParsedWords(src) = <<>> THEN "empty"
    ELSE "ok"

\* what each program prints for a path that is not found, for an extension
\* it does not know, and for a file without a usable record
NotFoundReports ==
    {<<"not found">>, <<"Error loading file", "Could not load words">>}

UnsupportedReports == {<<"Unsupported file type">>}

EmptyReports == {<<"The file is empty">>, <<"Could not load words">>}

\* C19: a load of a path fails with a report of its own in each of the
\* three cases and returns no list; a load that succeeds has a list that is
\* not empty.
FailureOutcomes ==
    source.kind = "file" =>
        /\ FailureCase(source) = "not_found" => load_outcome \in NotFoundReports
        /\ FailureCase(source) = "unsupported" =>
               load_outcome \in UnsupportedReports
        /\ FailureCase(source) = "empty" => load_outcome \in EmptyReports
        /\ FailureCase(source) # "ok" =>
               IF variant = "gui" THEN pc = "main_menu" ELSE entry_words = <<>>
        /\ FailureCase(source) = "ok" =>
               IF variant = "gui"
               THEN pc = "select_words" /\ full_word_list # <<>>
               ELSE entry_words # <<>>

(***************************************************************************)
(* The loader of the older terminal program (spelling_app_v2.py) as steps: *)
(* its main menu, the menu of create_word_list and load_from_file.         *)
(***************************************************************************)
\* main, choice 1: the menu of create_word_list is shown
V2CreateMenu ==
    /\ variant = "legacy"
    /\ pc = "menu"
    /\ pc' = "create_menu"
    /\ UNCHANGED <<variant, full_word_list, testVars, selVars, loadVars>>

\* create_word_list, choice 2: load_from_file up to its last "Press Enter
\* to continue..."
V2LoadFile ==
    /\ variant = "legacy"
    /\ pc = "create_menu"
    /\ \E filename \in Sources :
         LET loaded == load_from_file_v2(filename)
         IN  /\ source' = filename
             /\ load_outcome' = loaded.printed
             /\ entry_words' = loaded.words
    /\ pc' = "continue_file"
    /\ UNCHANGED <<variant, full_word_list, testVars, selVars, recentVars, saved_file,
                   saved_list, entry_lines>>

\* Enter at the end of load_from_file: a list is returned through
\* create_word_list to main, which installs it; after None the menu of
\* create_word_list is shown again
V2ContinueFile ==
    /\ variant = "legacy"
    /\ pc = "continue_file"
    /\ IF entry_words # <<>>
       THEN /\ full_word_list' = entry_words
            /\ pc' = "menu"
       ELSE /\ pc' = "create_menu"
            /\ UNCHANGED full_word_list
    /\ source' = NoSource
    /\ load_outcome' = <<>>
    /\ entry_words' = <<>>
    /\ UNCHANGED <<variant, testVars, selVars, recentVars, saved_file, saved_list,
                   entry_lines>>

V2Init ==
    /\ variant = "legacy"
    /\ pc = "menu"
    /\ full_word_list = <<>>
    /\ words_to_test = <<>>
    /\ current_word_index = 0
    /\ test_results = <<>>
    /\ current_word_data = NoData
    /\ pending = 0
    /\ practice_disabled = FALSE
    /\ info_label = "none"
    /\ announced = <<>>
    /\ speech = "none"
    /\ typed_lines = <<>>
    /\ results_label = NoReport
    /\ LoadIdle
    /\ sel_input = <<>>
    /\ sel_atoms = <<>>
    /\ sel_words = <<>>
    /\ sel_ids = {}
    /\ sel_out = <<>>

V2Next ==
    \/ V2CreateMenu
    \/ V2LoadFile
    \/ V2ContinueFile

V2Spec == V2Init /\ [][V2Next]_vars

(***************************************************************************)
(* Properties of the text and CSV loaders.                                 *)
(***************************************************************************)
\* a load has read the file of the source, of the given extension, and its
\* result is on hand
FileRead(ext) ==
    /\ source.kind = "file"
    /\ source.exists /\ source.readable
    /\ source.ext = ext
    /\ variant = "gui" \/ pc = "continue_file"

\* the list the load has produced
FileResult == IF variant = "gui" THEN full_word_list ELSE entry_words

\* the rows behind the first one with two cells or more whose first two
\* cells are not blank
RecordRows(rows) ==
    {k \in 2..Len(rows) :
        /\ Len(rows[k]) >= 2
        /\ Strip(rows[k][1]) # <<>>
        /\ Strip(rows[k][2]) # <<>>}

\* C21: a CSV load discards the first row whatever it holds; each later
\* row with two fields or more whose first two fields are not blank once
\* trimmed gives one record, id the first field and word the second, both
\* trimmed, in the order of the file; no other row gives a record.
CsvRecords ==
    FileRead("csv") =>
        /\ Len(FileResult) = Cardinality(RecordRows(source.rows))
        /\ \A j \in 1..Len(FileResult) :
               FileResult[j] =
                   [id |-> Strip(source.rows[NthOf(RecordRows(source.rows), j)][1]),
                    word |-> Strip(source.rows[NthOf(RecordRows(source.rows), j)][2])]

\* the lines that are not blank
WordLines(lines) == {k \in 1..Len(lines) : Strip(lines[k]) # <<>>}

\* C22: a text load gives one record for each line that is not blank, in
\* the order of the file; the id is the position of the line, counted from
\* 1 over all lines, blank ones too, as a string, so the ids grow strictly
\* and may leave gaps.
TxtRecords ==
    FileRead("txt") =>
        /\ Len(FileResult) = Cardinality(WordLines(source.lines))
        /\ \A j \in 1..Len(FileResult) :
               FileResult[j] =
                   [id |-> Str(NthOf(WordLines(source.lines), j)),
                    word |-> Strip(source.lines[NthOf(WordLines(source.lines), j)])]
        /\ \A j \in 1..(Len(FileResult) - 1) :
               IntVal(FileResult[j].id) < IntVal(FileResult[j + 1].id)

\* a text file whose first line is blank has been loaded: its word has id 2
TxtGapLoaded ==
    /\ FileRead("txt")
    /\ source.lines = <<(<<>>), CAT>>
    /\ FileResult = <<Rec(<<"2">>, CAT)>>

(***************************************************************************)
(* Records that share an id.                                               *)
(***************************************************************************)
\* the positions of seq whose record carries id
WithId(seq, id) == {k \in 1..Len(seq) : seq[k].id = id}

\* C24: for each id requested, the list returned holds every record of the
\* word list that carries it, as many as the word list has, in the order of
\* the word list.
DuplicateIdsAllMatch ==
    (Parsed /\ ~BlankOrAll(sel_input)) =>
        \A id \in sel_ids :
            /\ Cardinality(WithId(sel_out, id)) =
                   Cardinality(WithId(sel_words, id))
            /\ \A n \in 1..Cardinality(WithId(sel_words, id)) :
                   sel_out[NthOf(WithId(sel_out, id), n)] =
                       sel_words[NthOf(WithId(sel_words, id), n)]

\* "2" over the list that has two records of id 2 gave both of them
BothRecordsOfIdTwo ==
    /\ Parsed
    /\ sel_words = IdsCsv
    /\ sel_atoms = <<(<<2>>)>>
    /\ Cardinality(WithId(sel_words, <<"2">>)) = 2
    /\ sel_out = <<IdsCsv[2], IdsCsv[4]>>

(***************************************************************************)
(* Properties of a session as a whole.                                     *)
(***************************************************************************)
\* a is b with some of its elements left out
RECURSIVE IsSubseq(_, _)
IsSubseq(a, b) ==
    IF a = <<>> THEN TRUE
    ELSE IF b = <<>> THEN FALSE
    ELSE IF Head(a) = Head(b) THEN IsSubseq(Tail(a), Tail(b))
    ELSE IsSubseq(a, Tail(b))

\* this step enters the first round of a session, with the words selected
SessionStart ==
    \/ pc = "select_words" /\ pc' = "spelling_test"
    \/ pc = "select" /\ pc' = "announce"

\* C25: the working set changes only when a session starts and when a
\* round is scored; the working set after a round is a subsequence of the
\* working set of that round, hence no larger.
RoundsNarrow ==
    [][(words_to_test' # words_to_test /\ ~SessionStart) =>
          /\ IsSubseq(words_to_test', words_to_test)
          /\ Len(words_to_test') <= Len(words_to_test)]_vars

\* C27: a step of a session (selecting, announcing, answering, scoring,
\* retrying) leaves the loaded list as it is: the list changes only by a
\* load or an install made from the main menu, and the words a session
\* starts with are drawn from the whole of it.
LoadedListUntouched ==
    [][/\ full_word_list' # full_word_list =>
            /\ pc \in {"main_menu", "menu"}
            /\ pc' \in {"main_menu", "select_words", "menu"}
       /\ SessionStart => IsSubseq(words_to_test', full_word_list)
       /\ (SessionStart /\ Len(words_to_test') = Len(full_word_list)) =>
            words_to_test' = full_word_list]_vars

\* a round of two answers has been scored and the working set has narrowed
\* to one word, while the loaded list still has its three
NarrowedRoundListIntact ==
    /\ pc \in {"results", "prompt"}
    /\ full_word_list = List3
    /\ Len(words_to_test) = 1
    /\ Len(test_results) = 2

\* this step of the GUI enters a round
RoundEntered == pc # "spelling_test" /\ pc' = "spelling_test"

\* this step takes the text of the input field as an answer
AnswerTyped == Len(typed_lines') = Len(typed_lines) + 1

\* C28: in the GUI the number of results is the index, before and after
\* every step, whatever the order of on_enter, the scheduled next_word and
\* submit_word; a step that enters a round sets both to 0, a step that
\* takes an answer adds one to both, and no other step changes either.
IndexCountsAnswers ==
    [][variant = "gui" =>
         /\ Len(test_results) = current_word_index
         /\ Len(test_results') = current_word_index'
         /\ RoundEntered => (current_word_index' = 0 /\ test_results' = <<>>)
         /\ AnswerTyped =>
                /\ current_word_index' = current_word_index + 1
                /\ SubSeq(test_results', 1, Len(test_results)) = test_results
         /\ (~RoundEntered /\ ~AnswerTyped) =>
                UNCHANGED <<current_word_index, test_results>>]_vars

\* two answers were submitted in a retry round while the next_word that
\* on_enter scheduled has not run yet
TwoAnswersTimerOutstanding ==
    /\ variant = "gui"
    /\ pc = "spelling_test"
    /\ pending > 0
    /\ current_word_index = 2
    /\ Len(test_results) = 2

(***************************************************************************)
(* Termination of a session of the terminal program.  The program runs on  *)
(* from each input() once a line is typed, every prompt is answered, and   *)
(* a user who is asked again and again whether to practice again answers   *)
(* something other than y at some point.                                   *)
(***************************************************************************)
\* the prompt is answered with something other than y
TermDecline == TermPrompt /\ pc' = "menu"

LiveSpec ==
    /\ Spec
    /\ WF_vars(TermAnnounce)
    /\ WF_vars(TermInput)
    /\ WF_vars(TermPrompt)
    /\ SF_vars(TermDecline)

\* the practice loop of start_spelling_test is running
InLoop == variant = "term" /\ pc \in {"announce", "input", "prompt"}

\* the loop is left only by the last answer of a round without a miss and
\* by an answer other than y at the prompt, and a round without a miss
\* always leaves it
LoopExits ==
    [][/\ (InLoop /\ pc' = "menu") =>
            \/ pc = "input" /\ MissIdx(test_results') = {}
                    /\ Len(test_results') = Len(words_to_test)
            \/ pc = "prompt" /\ words_to_test' = words_to_test
       /\ (pc = "input" /\ pc' # "crashed"
              /\ Len(test_results') = Len(words_to_test)
              /\ MissIdx(test_results') = {}) => pc' = "menu"]_vars

\* C26: once the practice loop of the terminal program runs, the session
\* ends at some point and the main menu is shown again.
SessionEnds == InLoop ~> (pc = "menu")

\* the same, a program ended by an exception counted as an end
SessionEndsOrDies == InLoop ~> (pc \in {"menu", "crashed"})

(***************************************************************************)
(* The list of recent files on its own: calls of save_recent_file and      *)
(* remove_recent_file with any path, from the state in which               *)
(* recent_files.json does not exist.                                       *)
(***************************************************************************)
\* save_recent_file(filepath)
SaveRecent ==
    /\ variant = "recent"
    /\ \E loaded \in {load_recent_files(recent_files)} :
         \E filepath \in Paths, outcome \in WriteOutcomes :
             /\ recent_files' =
                    save_recent_file(filepath, loaded, recent_files, outcome)
             /\ recent_call' = SaveCall(filepath, outcome)
    /\ UNCHANGED <<variant, sessionVars, selVars, diskVars>>

\* remove_recent_file(filepath)
RemoveRecent ==
    /\ variant = "recent"
    /\ \E loaded \in {load_recent_files(recent_files)} :
         \E filepath \in Paths, outcome \in WriteOutcomes :
             /\ recent_files' =
                    remove_recent_file(filepath, loaded, recent_files, outcome)
             /\ recent_call' = RemoveCall(filepath, loaded, outcome)
    /\ UNCHANGED <<variant, sessionVars, selVars, diskVars>>

RecentInit ==
    /\ variant = "recent"
    /\ pc = "main_menu"
    /\ full_word_list = <<>>
    /\ words_to_test = <<>>
    /\ current_word_index = 0
    /\ test_results = <<>>
    /\ current_word_data = NoData
    /\ pending = 0
    /\ practice_disabled = FALSE
    /\ info_label = "none"
    /\ announced = <<>>
    /\ speech = "none"
    /\ typed_lines = <<>>
    /\ results_label = NoReport
    /\ LoadIdle
    /\ sel_input = <<>>
    /\ sel_atoms = <<>>
    /\ sel_words = <<>>
    /\ sel_ids = {}
    /\ sel_out = <<>>

RecentNext == SaveRecent \/ RemoveRecent

RecentSpec == RecentInit /\ [][RecentNext]_vars

\* the list without the path, the others in their order
Without(list, filepath) ==
    SelectSeq(list, LAMBDA other : other # filepath)

\* the first n entries of the list, or all of it
FirstOf(list, n) == SubSeq(list, 1, IF Len(list) < n THEN Len(list) ELSE n)

\* this step is a call of op that wrote what it had to write
Called(op) == recent_call'.op = op

====
